---- MODULE Spec2Model ----
(***************************************************************************)
(* A model of tools/io_relay.py, the communications relay of Elkulator's   *)
(* I/O port support: the line ending conversions, the Channel class, the   *)
(* polling loop of session() and the set-up and clean-up done by main().   *)
(***************************************************************************)
EXTENDS Integers, Sequences, FiniteSets, TLC

VARIABLES
    pc,             \* main's position
    mode,           \* "--console" or "--telnet"
    temporary_file, \* main's temporary_file
    fileExists,     \* whether the socket file is on disk
    server,         \* main's server: "None", "open" or "closed"
    fds,            \* session's fds: the events of this wakeup not yet done with
    s,              \* session's s: the unit read and not yet written
    writer,         \* session's writer: the channel s is to be written through
    ret,            \* what session() gave its caller: "running", "None"
    log,            \* the messages session() printed to stderr
    exc,            \* the exception unwinding main, "none" when there is none
    fault,          \* the call that failed or was interrupted, "none" so far
    src,            \* per endpoint, the bytes its peer has yet to send
    buf,            \* per endpoint, the bytes that arrived and were not read
    cond,           \* per endpoint, its condition as the poller reports it
    rd,             \* per endpoint, the units read from it, in order
    wrs,            \* per endpoint, the buffers written to it, in order
    zeros,          \* per endpoint, the zero-byte reads counted so far
    fin,            \* conversion laboratory: the input
    fop,            \* conversion laboratory: the conversion applied
    fout            \* conversion laboratory: the result

vars == << pc, mode, temporary_file, fileExists, server, fds, s, writer, ret,
           log, exc, fault, src, buf, cond, rd, wrs, zeros, fin, fop,
           fout >>

-----------------------------------------------------------------------------
(* Bounds of the model.                                                    *)

\* Longest byte string handed to a conversion function.
MaxLen == 4
\* Most bytes over Alphabet the two peers send, together, during a session.
MaxStream == 1
\* Zero-byte reads recorded per endpoint; later ones repeat the same state.
MaxZeroReads == 1

-----------------------------------------------------------------------------
(* Byte strings.                                                           *)

EMPTY == << >>
CR == << 13 >>
LF == << 10 >>

\* Line feed, carriage return and a payload byte ("A").
Alphabet == {10, 13, 65}
AllBytes == 0..255

RECURSIVE BoundedSeq(_, _)
BoundedSeq(S, n) ==
    IF n = 0 THEN {EMPTY}
    ELSE LET shorter == BoundedSeq(S, n - 1)
         IN  shorter \cup {Append(t, b) : t \in {u \in shorter : Len(u) = n - 1}, b \in S}

RECURSIVE Concat(_)
Concat(units) ==
    IF units = << >> THEN EMPTY ELSE Head(units) \o Concat(Tail(units))

IsPrefix(old, t) ==
    /\ Len(old) <= Len(t)
    /\ SubSeq(t, 1, Len(old)) = old

\* bytes.replace(old, new) for a non-empty old: the occurrences of old, found
\* from the left and not overlapping, are replaced by new.
RECURSIVE Replace(_, _, _)
Replace(t, old, new) ==
    IF t = EMPTY THEN EMPTY
    ELSE IF IsPrefix(old, t)
         THEN new \o Replace(SubSeq(t, Len(old) + 1, Len(t)), old, new)
         ELSE << Head(t) >> \o Replace(Tail(t), old, new)

-----------------------------------------------------------------------------
(* Line ending conversion functions.                                       *)

cr_to_lf_swapped(t) == Replace(Replace(t, CR, LF), LF, EMPTY)
\* Variant: a carriage return and its line feed are replaced as a pair.
cr_to_lf_pairs(t) == Replace(Replace(t, CR \o LF, LF), CR, LF)
cr_to_lf(t) == Replace(Replace(t, LF, EMPTY), CR, LF)

lf_to_cr_swapped(t) == Replace(Replace(t, LF, CR), CR, EMPTY)
\* Variant: the result is made to end with a carriage return.
lf_to_cr_terminating(t) ==
    LET r == Replace(Replace(t, CR, EMPTY), LF, CR)
    IN  IF r # EMPTY /\ r[Len(r)] = Head(CR) THEN r ELSE r \o CR
lf_to_cr(t) == Replace(Replace(t, CR, EMPTY), LF, CR)

null(t) == t

Convert(converter, t) ==
    CASE converter = "cr_to_lf" -> cr_to_lf(t)
      [] converter = "lf_to_cr" -> lf_to_cr(t)
      [] converter = "null"     -> null(t)

-----------------------------------------------------------------------------
(* Channels.                                                               *)

Endpoints == {"local", "remote"}

\* Channel(inp, outp, converter): inp and outp name the endpoint whose stream
\* is read and the endpoint whose stream is written.
Channel(inp, outp, converter) ==
    [inp |-> inp, outp |-> outp, converter |-> converter]

\* Channel.fileno: the descriptor of the stream that is read.
fileno(ch) == ch.inp

\* Variant: the console conversion whatever the mode.
remote_always_console == Channel("remote", "remote", "cr_to_lf")

\* main's remote and local, by mode.
remote ==
    IF mode = "--telnet" THEN Channel("remote", "remote", "null")
                         ELSE Channel("remote", "remote", "cr_to_lf")

\* Variant: the console conversions the other way round.
local_cr_to_lf ==
    IF mode = "--telnet" THEN Channel("local", "local", "null")
                         ELSE Channel("local", "local", "cr_to_lf")

local ==
    IF mode = "--telnet" THEN Channel("local", "local", "null")
                         ELSE Channel("local", "local", "lf_to_cr")

\* Variant: each reader paired with itself.
channels_echo == << << local, local >>, << remote, remote >> >>

channels == << << local, remote >>, << remote, local >> >>

\* session's channel_map: later pairs replace earlier ones with the same key.
RECURSIVE MapOf(_)
MapOf(pairs) ==
    IF pairs = << >> THEN << >>
    ELSE LET rest == MapOf(SubSeq(pairs, 1, Len(pairs) - 1))
             last == pairs[Len(pairs)]
             key  == fileno(last[1])
         IN  [fd \in (DOMAIN rest) \cup {key} |->
                 IF fd = key THEN last ELSE rest[fd]]

channel_map == MapOf(channels)

\* Variant: everything that is waiting is read at once.
ChannelRead_all(ch) == buf[ch.inp]

\* Channel.read(1): at most one byte, none when nothing is left to read.
ChannelRead(ch) ==
    IF buf[ch.inp] = EMPTY THEN EMPTY ELSE << Head(buf[ch.inp]) >>

\* Variant: the converted string stays in outp's buffer.
ChannelWrite_unflushed(ch, t) == wrs

\* Channel.write(t): the converted string goes to outp, which is flushed.
ChannelWrite(ch, t) ==
    [wrs EXCEPT ![ch.outp] = Append(@, Convert(ch.converter, t))]

-----------------------------------------------------------------------------
(* The poller.                                                             *)

HangupFlags == {"POLLHUP", "POLLNVAL", "POLLERR"}

\* What poll() reports for a registered descriptor: readable when bytes are
\* waiting or the peer has shut its sending side down, and the condition of
\* the descriptor otherwise.
Status(e) ==
    (IF buf[e] # EMPTY \/ cond[e] = "eof" THEN {"POLLIN"} ELSE {})
    \cup (IF cond[e] = "hup" THEN {"POLLHUP"} ELSE {})
    \cup (IF cond[e] = "err" THEN {"POLLERR"} ELSE {})
    \cup (IF cond[e] = "nval" THEN {"POLLNVAL"} ELSE {})

Event(e) == [fd |-> e, status |-> Status(e)]

\* Variant: poll() reports one ready descriptor a call, whichever it likes.
Wakeups_single ==
    {<< Event(e) >> : e \in {d \in Endpoints : Status(d) # {}}}

\* The lists poll() may return: every registered descriptor that has
\* something to report, once, in an order the caller does not choose.
Wakeups ==
    LET ready  == {e \in Endpoints : Status(e) # {}}
        orders == {o \in [1..Cardinality(ready) -> ready] :
                      \A i, j \in DOMAIN o : i # j => o[i] # o[j]}
    IN  IF ready = {} THEN {}
        ELSE {[i \in DOMAIN o |-> Event(o[i])] : o \in orders}

-----------------------------------------------------------------------------
(* The peers.  What a peer does between two calls of poll() is seen by    *)
(* session() at the second call at the earliest: read(1) is only called   *)
(* for a descriptor the first call reported readable, and finds the same  *)
(* first byte whatever arrived since.  The peers are therefore taken to   *)
(* act while session() is in, or about to call, poll().                   *)

session_pcs == {"poll", "events", "write"}

envVars == << src, buf, cond >>
histVars == << rd, wrs, zeros >>
mainVars == << mode, temporary_file, fileExists, server >>
labVars == << fin, fop, fout >>

\* A byte sent by the peer of e arrives.
Arrive(e) ==
    /\ pc = "poll"
    /\ cond[e] = "open"
    /\ src[e] # EMPTY
    /\ buf' = [buf EXCEPT ![e] = Append(@, Head(src[e]))]
    /\ src' = [src EXCEPT ![e] = Tail(@)]
    /\ UNCHANGED << pc, mainVars, fds, s, writer, ret, log, exc, fault, cond,
                    histVars, labVars >>

\* The peer of e shuts its sending side down ("eof"), hangs up, fails, or
\* the descriptor becomes invalid.
PeerEvent(e, c) ==
    /\ pc = "poll"
    /\ cond[e] = "open"
    /\ cond' = [cond EXCEPT ![e] = c]
    /\ UNCHANGED << pc, mainVars, fds, s, writer, ret, log, exc, fault, src, buf,
                    histVars, labVars >>

-----------------------------------------------------------------------------
(* session(poller, channels).                                              *)

\* fds = poller.poll(): blocks until some descriptor has something to report.
Poll ==
    /\ pc = "poll"
    /\ \E evs \in Wakeups : fds' = evs
    /\ pc' = "events"
    /\ UNCHANGED << mainVars, s, writer, ret, log, exc, fault, envVars, histVars,
                    labVars >>

IsHangup(status) == status \cap HangupFlags # {}

\* Variant: the two tests the other way round.
Branch_read_first(status) ==
    IF "POLLIN" \in status THEN "relay"
    ELSE IF IsHangup(status) THEN "return"
    ELSE "next"

\* The if and the elif of the loop body, in that order.
Branch(status) ==
    IF IsHangup(status) THEN "return"
    ELSE IF "POLLIN" \in status THEN "relay"
    ELSE "next"

\* Variant: a reason is returned, by the flag reported.
EventHangup_reasoned ==
    /\ pc = "events"
    /\ Branch(Head(fds).status) = "return"
    /\ log' = Append(log, "Connection closed.")
    /\ ret' = IF "POLLERR" \in Head(fds).status THEN "EndpointError"
                                                ELSE "PeerClosed"
    /\ pc' = "finally"
    /\ UNCHANGED << mainVars, fds, s, writer, exc, fault, envVars, histVars,
                    labVars >>

\* The first branch of the loop body: the message, then return.
EventHangup ==
    /\ pc = "events"
    /\ Branch(Head(fds).status) = "return"
    /\ log' = Append(log, "Connection closed.")
    /\ ret' = "None"
    /\ pc' = "finally"
    /\ UNCHANGED << mainVars, fds, s, writer, exc, fault, envVars, histVars, labVars >>

ReadBranch ==
    /\ pc = "events"
    /\ Branch(Head(fds).status) = "relay"

\* reader, writer = channel_map[fd]; s = reader.read(1)
EventRead ==
    /\ ReadBranch
    /\ LET pair == channel_map[Head(fds).fd]
           e    == pair[1].inp
           unit == ChannelRead(pair[1])
       IN  /\ s' = unit
           /\ writer' = pair[2]
           /\ buf' = [buf EXCEPT ![e] = IF @ = EMPTY THEN @ ELSE Tail(@)]
           /\ rd' = IF unit = EMPTY /\ zeros[e] >= MaxZeroReads
                    THEN rd
                    ELSE [rd EXCEPT ![e] = Append(@, unit)]
           /\ zeros' = IF unit = EMPTY /\ zeros[e] <= MaxZeroReads
                       THEN [zeros EXCEPT ![e] = @ + 1]
                       ELSE zeros
    /\ pc' = "write"
    /\ UNCHANGED << mainVars, fds, ret, log, exc, fault, src, cond, wrs, labVars >>

\* reader.read(1) raises.
EventReadFails ==
    /\ ReadBranch
    /\ exc' = "OSError"
    /\ fault' = "read"
    /\ pc' = "finally"
    /\ UNCHANGED << mainVars, fds, s, writer, ret, log, envVars, histVars,
                    labVars >>

AfterWrite(rest) == IF rest = << >> THEN "poll" ELSE "events"

\* Variant: an empty s is taken for the end of the session.
EventWrite_returns_on_empty ==
    /\ pc = "write"
    /\ IF s = EMPTY
       THEN /\ log' = Append(log, "Connection closed.")
            /\ ret' = "None"
            /\ pc' = "finally"
            /\ UNCHANGED << fds, wrs >>
       ELSE /\ wrs' = ChannelWrite(writer, s)
            /\ fds' = Tail(fds)
            /\ pc' = AfterWrite(Tail(fds))
            /\ UNCHANGED << ret, log >>
    /\ UNCHANGED << mainVars, s, writer, exc, fault, envVars, rd, zeros,
                    labVars >>

\* writer.write(s), and on to the next event or the next poll().
EventWrite ==
    /\ pc = "write"
    /\ LET e == channel_map[Head(fds).fd][1].inp
       IN  wrs' = IF s = EMPTY /\ zeros[e] > MaxZeroReads
                  THEN wrs
                  ELSE ChannelWrite(writer, s)
    /\ fds' = Tail(fds)
    /\ pc' = AfterWrite(Tail(fds))
    /\ UNCHANGED << mainVars, s, writer, ret, log, exc, fault, envVars, rd, zeros,
                    labVars >>

\* Variant: the failure is caught in the loop, which goes on.
EventWriteFails_swallowed ==
    /\ pc = "write"
    /\ fault' = "write"
    /\ fds' = Tail(fds)
    /\ pc' = AfterWrite(Tail(fds))
    /\ UNCHANGED << mainVars, s, writer, ret, log, exc, envVars, histVars,
                    labVars >>

\* writer.write(s) raises.
EventWriteFails ==
    /\ pc = "write"
    /\ exc' = "OSError"
    /\ fault' = "write"
    /\ pc' = "finally"
    /\ UNCHANGED << mainVars, fds, s, writer, ret, log, envVars, histVars,
                    labVars >>

\* The process is interrupted while session() runs.
Interrupt ==
    /\ pc \in session_pcs
    /\ exc' = "KeyboardInterrupt"
    /\ fault' = "session"
    /\ pc' = "finally"
    /\ UNCHANGED << mainVars, fds, s, writer, ret, log, envVars, histVars,
                    labVars >>

-----------------------------------------------------------------------------
(* main().                                                                 *)

\* s.bind(filename); s.listen(0)
Bind ==
    /\ pc = "bind"
    /\ fileExists' = TRUE
    /\ pc' = "accept"
    /\ UNCHANGED << mode, temporary_file, server, fds, s, writer, ret, log,
                    exc, fault, envVars, histVars, labVars >>

\* c, addr = s.accept()
Accept ==
    /\ pc = "accept"
    /\ pc' = "connect"
    /\ UNCHANGED << mainVars, fds, s, writer, ret, log, exc, fault, envVars,
                    histVars, labVars >>

\* s.accept() is interrupted: nothing in main catches it.
AcceptInterrupted ==
    /\ pc = "accept"
    /\ exc' = "KeyboardInterrupt"
    /\ fault' = "accept"
    /\ pc' = "exit"
    /\ UNCHANGED << mainVars, fds, s, writer, ret, log, envVars, histVars,
                    labVars >>

\* The relay destination, the channels and the poller.
Connect ==
    /\ pc = "connect"
    /\ server' = IF mode = "--telnet" THEN "open" ELSE "None"
    /\ pc' = "poll"
    /\ UNCHANGED << mode, temporary_file, fileExists, fds, s, writer, ret,
                    log, exc, fault, envVars, histVars, labVars >>

\* Telnet(host, port) raises: nothing in main catches it.
ConnectFails ==
    /\ pc = "connect"
    /\ mode = "--telnet"
    /\ exc' = "OSError"
    /\ fault' = "Telnet"
    /\ pc' = "exit"
    /\ UNCHANGED << mainVars, fds, s, writer, ret, log, envVars, histVars,
                    labVars >>

\* Variant: the clean-up follows session() without a finally clause.
Finally_on_success ==
    /\ pc = "finally"
    /\ fileExists' = IF temporary_file /\ exc = "none" THEN FALSE ELSE fileExists
    /\ server' = IF server = "open" /\ exc = "none" THEN "closed" ELSE server
    /\ pc' = "exit"
    /\ UNCHANGED << mode, temporary_file, fds, s, writer, ret, log, exc, fault,
                    envVars, histVars, labVars >>

\* The finally clause around session(): the file, then the connection.
Finally ==
    /\ pc = "finally"
    /\ fileExists' = IF temporary_file THEN FALSE ELSE fileExists
    /\ server' = IF server = "open" THEN "closed" ELSE server
    /\ pc' = "exit"
    /\ UNCHANGED << mode, temporary_file, fds, s, writer, ret, log, exc, fault,
                    envVars, histVars, labVars >>

-----------------------------------------------------------------------------
(* The program.                                                            *)

AT_CR_LF == << 65, 84, 13, 10 >>
OK_LF == << 79, 75, 10 >>

\* A line ending from each side at once: the emulated machine ends a line
\* while the terminal sends its own.
BothWays == [e \in Endpoints |-> IF e = "local" THEN CR \o LF ELSE LF]

\* What the two peers may send during one session: a console-mode line from
\* either side, line endings from both sides, and every pair of streams over
\* Alphabet of at most MaxStream bytes together.
Scenarios ==
    {[e \in Endpoints |-> IF e = from THEN line ELSE EMPTY] :
        from \in Endpoints, line \in {AT_CR_LF, OK_LF}}
    \cup {BothWays}
    \cup {f \in [Endpoints -> BoundedSeq(Alphabet, MaxStream)] :
            Len(f["local"]) + Len(f["remote"]) <= MaxStream}

Init ==
    /\ pc = "bind"
    /\ mode \in {"--console", "--telnet"}
    /\ temporary_file \in BOOLEAN
    /\ fileExists = FALSE
    /\ server = "None"
    /\ fds = << >>
    /\ s = EMPTY
    /\ writer = local
    /\ ret = "running"
    /\ log = << >>
    /\ exc = "none"
    /\ fault = "none"
    /\ src \in Scenarios
    /\ buf = [e \in Endpoints |-> EMPTY]
    /\ cond = [e \in Endpoints |-> "open"]
    /\ rd = [e \in Endpoints |-> << >>]
    /\ wrs = [e \in Endpoints |-> << >>]
    /\ zeros = [e \in Endpoints |-> 0]
    /\ fin = EMPTY
    /\ fop = "none"
    /\ fout = EMPTY

Conditions == {"eof", "hup", "err", "nval"}

Next ==
    \/ Bind
    \/ Accept
    \/ AcceptInterrupted
    \/ Connect
    \/ ConnectFails
    \/ Poll
    \/ EventHangup
    \/ EventRead
    \/ EventReadFails
    \/ EventWrite
    \/ EventWriteFails
    \/ Interrupt
    \/ Finally
    \/ \E e \in Endpoints : Arrive(e)
    \/ \E e \in Endpoints, c \in Conditions : PeerEvent(e, c)

Spec == Init /\ [][Next]_vars

\* What the process does by itself once the session has started: it is never
\* suspended for good, so a step of the loop or of the clean-up that stays
\* possible is taken.  Nothing is assumed of the peers or of interrupts.
EngineStep ==
    \/ Poll
    \/ EventHangup
    \/ EventRead
    \/ EventReadFails
    \/ EventWrite
    \/ EventWriteFails
    \/ Finally

\* For what happens in the long run only the number of bytes counts: the
\* peers send the payload byte, at most MaxStream times together.  session()
\* never looks at the socket file, which is taken to be a temporary one.
InitFair ==
    /\ Init
    /\ temporary_file
    /\ src \in {f \in [Endpoints -> BoundedSeq({65}, MaxStream)] :
                  Len(f["local"]) + Len(f["remote"]) <= MaxStream}

SpecFair == InitFair /\ [][Next]_vars /\ WF_vars(EngineStep)

-----------------------------------------------------------------------------
(* The conversion functions on their own: a byte string is drawn and one   *)
(* conversion is applied to it.                                            *)

\* Alphabet and a second payload byte ("T").
LabAlphabet == Alphabet \cup {84}

\* Every string over LabAlphabet of at most MaxLen bytes, and every single
\* byte.
Inputs == BoundedSeq(LabAlphabet, MaxLen) \cup {<< b >> : b \in AllBytes}

InitLab ==
    /\ pc = "lab"
    /\ mode = "--console"
    /\ temporary_file = FALSE
    /\ fileExists = FALSE
    /\ server = "None"
    /\ fds = << >>
    /\ s = EMPTY
    /\ writer = local
    /\ ret = "running"
    /\ log = << >>
    /\ exc = "none"
    /\ fault = "none"
    /\ src = [e \in Endpoints |-> EMPTY]
    /\ buf = [e \in Endpoints |-> EMPTY]
    /\ cond = [e \in Endpoints |-> "open"]
    /\ rd = [e \in Endpoints |-> << >>]
    /\ wrs = [e \in Endpoints |-> << >>]
    /\ zeros = [e \in Endpoints |-> 0]
    /\ fin \in Inputs
    /\ fop = "none"
    /\ fout = EMPTY

progVars ==
    << pc, mainVars, fds, s, writer, ret, log, exc, fault, envVars, histVars >>

Apply(op, result) ==
    /\ pc = "lab"
    /\ fop = "none"
    /\ fop' = op
    /\ fout' = result
    /\ UNCHANGED << fin, progVars >>

Apply_cr_to_lf == Apply("cr_to_lf", cr_to_lf(fin))
Apply_lf_to_cr == Apply("lf_to_cr", lf_to_cr(fin))
Apply_null == Apply("null", null(fin))
\* What the console sends back of what the emulated machine sent.
Apply_round_trip == Apply("round_trip", lf_to_cr(cr_to_lf(fin)))

\* A conversion applied to what it returned.
Apply_cr_to_lf_twice == Apply("cr_to_lf_twice", cr_to_lf(cr_to_lf(fin)))
Apply_lf_to_cr_twice == Apply("lf_to_cr_twice", lf_to_cr(lf_to_cr(fin)))

\* What session() writes of a string it reads: read(1) hands the converter
\* one byte at a time, and the results are written one after the other.
Bytewise(converter, t) ==
    Concat([i \in DOMAIN t |-> Convert(converter, << t[i] >>)])

Apply_cr_to_lf_bytewise == Apply("cr_to_lf_bytewise", Bytewise("cr_to_lf", fin))
Apply_lf_to_cr_bytewise == Apply("lf_to_cr_bytewise", Bytewise("lf_to_cr", fin))
Apply_null_bytewise == Apply("null_bytewise", Bytewise("null", fin))

NextLab ==
    \/ Apply_cr_to_lf
    \/ Apply_lf_to_cr
    \/ Apply_null
    \/ Apply_round_trip
    \/ Apply_cr_to_lf_twice
    \/ Apply_lf_to_cr_twice
    \/ Apply_cr_to_lf_bytewise
    \/ Apply_lf_to_cr_bytewise
    \/ Apply_null_bytewise

SpecLab == InitLab /\ [][NextLab]_vars

-----------------------------------------------------------------------------
(* Properties.                                                             *)

Other(e) == IF e = "local" THEN "remote" ELSE "local"

CRByte == Head(CR)
LFByte == Head(LF)

\* The converter applied to what is written to endpoint e.
ConverterTo(e) ==
    IF mode = "--telnet" THEN "null"
    ELSE IF e = "remote" THEN "cr_to_lf" ELSE "lf_to_cr"

\* Every unit read from e so far has been written.
AllWritten(e) == Len(wrs[Other(e)]) = Len(rd[e])

\* C1, as stated: in console mode the remote input "AT\r\n", once relayed,
\* has put exactly "AT\n" on the local side, and the local input "OK\n" has
\* put exactly "OK\r" on the remote side.
C1_RemoteToLineFeed ==
    mode = "--console" =>
        /\ (Concat(rd["remote"]) = AT_CR_LF /\ AllWritten("remote"))
              => Concat(wrs["local"]) = << 65, 84, 10 >>
        /\ (Concat(rd["local"]) = OK_LF /\ AllWritten("local"))
              => Concat(wrs["remote"]) = << 79, 75, 13 >>

\* C1, amended: in console mode every unit written to the remote side is
\* cr_to_lf of the unit read from the local side, so that the local input
\* "AT\r\n" puts exactly "AT\n" on the remote side; and every unit written to
\* the local side is lf_to_cr of the unit read from the remote side, so that
\* the remote input "OK\n" puts exactly "OK\r" on the local side.
C1_LocalToLineFeed ==
    mode = "--console" =>
        /\ \A i \in DOMAIN wrs["remote"] :
              i <= Len(rd["local"]) /\ wrs["remote"][i] = cr_to_lf(rd["local"][i])
        /\ \A i \in DOMAIN wrs["local"] :
              i <= Len(rd["remote"]) /\ wrs["local"][i] = lf_to_cr(rd["remote"][i])
        /\ (Concat(rd["local"]) = AT_CR_LF /\ AllWritten("local"))
              => Concat(wrs["remote"]) = << 65, 84, 10 >>
        /\ (Concat(rd["remote"]) = OK_LF /\ AllWritten("remote"))
              => Concat(wrs["local"]) = << 79, 75, 13 >>

\* The console line sent by the local side has been relayed in full.
C1_Witness ==
    /\ mode = "--console"
    /\ Concat(rd["local"]) = AT_CR_LF /\ AllWritten("local")
    /\ Concat(wrs["remote"]) = << 65, 84, 10 >>
    /\ wrs["local"] = << >>

terminated_pcs == {"finally", "exit"}

\* C2: the step that handles an event carrying POLLHUP, POLLERR or POLLNVAL
\* ends the session with nothing read or written, and from then on nothing is
\* read from or written to either endpoint and no event is handled: what is
\* left of the wakeup stays where it was.
C2_HangupEndsAtOnce ==
    [][ /\ (pc = "events" /\ IsHangup(Head(fds).status) /\ pc' # pc)
            => /\ pc' = "finally"
               /\ exc' = "none" => ret' = "None"
               /\ rd' = rd /\ wrs' = wrs /\ buf' = buf /\ fds' = fds
        /\ pc \in terminated_pcs
            => /\ pc' \in terminated_pcs
               /\ rd' = rd /\ wrs' = wrs /\ buf' = buf /\ fds' = fds
      ]_vars

\* The session ended on the first event of a wakeup whose second event
\* reported a readable descriptor, whose bytes are still unread.
C2_Witness ==
    /\ pc = "exit"
    /\ ret = "None"
    /\ Len(fds) = 2
    /\ IsHangup(fds[1].status)
    /\ fds[2].status = {"POLLIN"}
    /\ buf[fds[2].fd] # EMPTY
    /\ rd[fds[2].fd] = << >>

\* The session ended on an error event of the local endpoint.
LocalErrorEnded ==
    /\ pc \in terminated_pcs
    /\ ret # "running"
    /\ Head(fds).fd = "local"
    /\ "POLLERR" \in Head(fds).status

C4_NoMisrouting ==
    \A e \in Endpoints :
        LET w == wrs[Other(e)]
        IN  /\ Len(w) <= Len(rd[e])
            /\ Concat(w) = Concat([i \in DOMAIN w |->
                                      Convert(ConverterTo(Other(e)), rd[e][i])])

\* Both directions have relayed, each its own bytes, in telnet mode.
C4_Witness ==
    /\ mode = "--telnet"
    /\ Concat(rd["local"]) = CR \o LF
    /\ Concat(rd["remote"]) = LF
    /\ Concat(wrs["remote"]) = CR \o LF
    /\ Concat(wrs["local"]) = LF
    /\ pc = "poll"

\* The reader e was sent the one byte "A", which arrived, and then hung up,
\* the other endpoint staying idle, under the null conversion; session() has
\* returned.
C5_Case(e) ==
    /\ mode = "--telnet"
    /\ src[e] = EMPTY
    /\ Concat(rd[e]) \o buf[e] = << 65 >>
    /\ cond[e] = "hup"
    /\ src[Other(e)] = EMPTY /\ buf[Other(e)] = EMPTY /\ rd[Other(e)] = << >>
    /\ cond[Other(e)] = "open"
    /\ ret = "None"

\* C5, as stated: the byte has been written to the writer by the time the
\* hang-up ends the session, however the poller reported the two.
C5_ByteBeforeHangup ==
    \A e \in Endpoints : C5_Case(e) => Concat(wrs[Other(e)]) = << 65 >>

\* C5, amended: the session ends on the hang-up event of that reader; the
\* byte has been written to the writer if the hang-up was reported without
\* POLLIN, that is after a wakeup of its own for the byte, and is left unread
\* and unwritten if POLLIN and POLLHUP came as flags of one event.
C5_ByteBeforeSeparateHangup ==
    \A e \in Endpoints :
        C5_Case(e) =>
            /\ Head(fds).fd = e
            /\ "POLLHUP" \in Head(fds).status
            /\ IF "POLLIN" \in Head(fds).status
               THEN wrs[Other(e)] = << >> /\ buf[e] = << 65 >>
               ELSE wrs[Other(e)] = << << 65 >> >> /\ buf[e] = EMPTY

\* The byte was relayed in one wakeup and the hang-up ended the session in
\* the next.
C5_Witness ==
    /\ C5_Case("local")
    /\ pc = "exit"
    /\ Head(fds).status = {"POLLHUP"}
    /\ wrs["remote"] = << << 65 >> >>

io_faults == {"read", "write"}

\* C6: a read or a write that fails changes nothing that was read or written,
\* leaves OSError unwinding main with session() not having returned, and no
\* step after it reads, writes or resumes the loop.
C6_NoRetry ==
    [][ /\ fault' \in io_faults
            => /\ exc' = "OSError"
               /\ ret' = "running"
               /\ pc' \in terminated_pcs
        /\ (fault \in io_faults \/ fault' \in io_faults)
            => rd' = rd /\ wrs' = wrs /\ buf' = buf
      ]_vars

\* A write failed with a byte read and more bytes waiting; main has exited.
C6_Witness ==
    /\ pc = "exit"
    /\ fault = "write"
    /\ exc = "OSError"
    /\ Len(rd["local"]) = 1
    /\ s # EMPTY
    /\ wrs["remote"] = << >>
    /\ buf["local"] # EMPTY

\* C7: when main has exited after session() was entered, whether session()
\* returned, raised or was interrupted, the socket file is gone if it was a
\* temporary file and the telnet connection is closed if one was opened.
C7_CleanupRuns ==
    (pc = "exit" /\ fault \notin {"accept", "Telnet"})
        => /\ temporary_file => ~fileExists
           /\ server # "open"
           /\ mode = "--telnet" => server = "closed"

\* An interrupted telnet session on a temporary socket file.
C7_Witness ==
    /\ pc = "exit"
    /\ fault = "session"
    /\ exc = "KeyboardInterrupt"
    /\ temporary_file
    /\ ~fileExists
    /\ server = "closed"

\* The unit read from e and not written yet.
Pending(e) == IF Len(rd[e]) > Len(wrs[Other(e)]) THEN s ELSE EMPTY

DeleteByte(t, b) == SelectSeq(t, LAMBDA x : x # b)

MapByte(t, from, to) == [i \in DOMAIN t |-> IF t[i] = from THEN to ELSE t[i]]

\* C9: cr_to_lf deletes the line feeds and then turns the carriage returns
\* into line feeds, lf_to_cr deletes the carriage returns and then turns the
\* line feeds into carriage returns, and null returns its argument.
C9_Conversions ==
    /\ fop = "cr_to_lf" => fout = MapByte(DeleteByte(fin, LFByte), CRByte, LFByte)
    /\ fop = "lf_to_cr" => fout = MapByte(DeleteByte(fin, CRByte), LFByte, CRByte)
    /\ fop = "null" => fout = fin

\* cr_to_lf was applied to a string with a line feed before and after a
\* carriage return.
C9_Witness ==
    /\ fop = "cr_to_lf"
    /\ fin = << 10, 65, 13, 10 >>
    /\ fout = << 65, 10 >>

\* Every line feed comes right after a carriage return.
WellFormed(t) ==
    \A i \in DOMAIN t : t[i] = LFByte => (i > 1 /\ t[i - 1] = CRByte)

\* t without the line feeds that come right after a carriage return.
RECURSIVE StripOptionalLF(_)
StripOptionalLF(t) ==
    IF Len(t) < 2 THEN t
    ELSE IF t[1] = CRByte /\ t[2] = LFByte
         THEN << CRByte >> \o StripOptionalLF(SubSeq(t, 3, Len(t)))
         ELSE << t[1] >> \o StripOptionalLF(Tail(t))

Count(t, b) == Cardinality({i \in DOMAIN t : t[i] = b})

\* C10: for a well-formed string, lf_to_cr of cr_to_lf is the string without
\* its optional line feeds, with as many carriage returns as it had.
C10_RoundTrip ==
    (fop = "round_trip" /\ WellFormed(fin))
        => /\ fout = StripOptionalLF(fin)
           /\ Count(fout, CRByte) = Count(fin, CRByte)
           /\ Count(fout, LFByte) = 0

\* Two lines, the first ended by carriage return and line feed, the second by
\* a carriage return alone.
C10_Witness ==
    /\ fop = "round_trip"
    /\ fin = << 65, 13, 10, 13 >>
    /\ WellFormed(fin)
    /\ fout = << 65, 13, 13 >>

\* t has no line feed and no carriage return.
Plain(t) == \A i \in DOMAIN t : t[i] # LFByte /\ t[i] # CRByte

\* C11: a non-empty string without line feed and carriage return bytes comes
\* out of cr_to_lf and of lf_to_cr as it went in.
C11_PlainPassThrough ==
    (fin # EMPTY /\ Plain(fin))
        => /\ fop = "cr_to_lf" => fout = fin
           /\ fop = "lf_to_cr" => fout = fin

\* lf_to_cr was applied to plain text of several bytes.
C11_Witness ==
    /\ fop = "lf_to_cr"
    /\ fin = << 65, 84, 84, 65 >>
    /\ fout = fin

\* C12: session() is left only by the step that handles an event carrying
\* POLLHUP, POLLERR or POLLNVAL, by a failing read or write, or by an
\* interrupt; writing the result of a zero-byte read adds no byte to what was
\* written and goes on to the next event or the next poll().
C12_OnlyHangupEnds ==
    [][ /\ (pc \in session_pcs /\ pc' \notin session_pcs)
            => /\ pc' = "finally"
               /\ \/ /\ pc = "events"
                     /\ IsHangup(Head(fds).status)
                     /\ ret' = "None"
                     /\ fault' = "none"
                  \/ /\ fault' \in {"read", "write", "session"}
                     /\ ret' = "running"
        /\ (pc = "write" /\ s = EMPTY /\ fault' = "none")
            => /\ pc' = AfterWrite(Tail(fds))
               /\ ret' = "running"
               /\ \A e \in Endpoints : Concat(wrs'[e]) = Concat(wrs[e])
      ]_vars

\* A zero-byte read of the remote endpoint was relayed and session() is back
\* in poll().
C12_Witness ==
    /\ pc = "poll"
    /\ ret = "running"
    /\ cond["remote"] = "eof"
    /\ zeros["remote"] >= 1
    /\ rd["remote"] = << EMPTY >>
    /\ wrs["local"] = << EMPTY >>

\* C13: once a read has returned zero bytes, the session comes to its end.
C13_ZeroReadEnds ==
    \A e \in Endpoints : (zeros[e] > 0) ~> (pc \in terminated_pcs)

\* The unit read from e whose write has not returned: the one being written,
\* or the one whose write failed or was interrupted.
InFlight(e) ==
    /\ fds # << >>
    /\ Head(fds).fd = e
    /\ \/ pc = "write"
       \/ pc \in terminated_pcs /\ fault \in {"write", "session"}

\* C14: in each direction every unit read is at most one byte, the buffers
\* written are, one for one and in order, the conversions of the units read,
\* and no unit read is without its write except the one in flight: between
\* events nothing is held back.
C14_UnitForUnit ==
    \A e \in Endpoints :
        LET w == wrs[Other(e)]
            r == rd[e]
        IN  /\ \A i \in DOMAIN r : Len(r[i]) <= 1
            /\ Len(w) <= Len(r)
            /\ \A i \in DOMAIN w : w[i] = Convert(ConverterTo(Other(e)), r[i])
            /\ Len(r) - Len(w) <= 1
            /\ Len(r) > Len(w) => InFlight(e)
            /\ pc \in {"poll", "events"} => Len(w) = Len(r)

\* The console line from the local side went through unit by unit, its line
\* feed written as an empty string.
C14_Witness ==
    /\ mode = "--console"
    /\ pc = "poll"
    /\ rd["local"] = << << 65 >>, << 84 >>, << 13 >>, << 10 >> >>
    /\ wrs["remote"] = << << 65 >>, << 84 >>, << 10 >>, EMPTY >>

Ready == {e \in Endpoints : Status(e) # {}}

\* One step of the loop of session, as C15 describes it: poll() hands over
\* every ready descriptor once, the event taken is the first of those left,
\* its unit goes to the other side, and poll() is called again when, and only
\* when, none is left.
C15_Step ==
    /\ (pc = "poll" /\ pc' = "events") =>
          /\ Len(fds') = Cardinality(Ready)
          /\ {fds'[i].fd : i \in DOMAIN fds'} = Ready
          /\ \A i \in DOMAIN fds' : fds'[i] = Event(fds'[i].fd)
    /\ (pc = "events" /\ pc' = "write") =>
          LET e == Head(fds).fd
          IN  /\ fds' = fds
              /\ ~IsHangup(Head(fds).status)
              /\ buf[e] # EMPTY =>
                    /\ s' = << Head(buf[e]) >>
                    /\ rd' = [rd EXCEPT ![e] = Append(@, s')]
              /\ buf[e] = EMPTY => s' = EMPTY
              /\ \A d \in Endpoints \ {e} : rd'[d] = rd[d] /\ buf'[d] = buf[d]
    /\ (pc = "write" /\ pc' \in session_pcs) =>
          LET e == Head(fds).fd
          IN  /\ fds' = Tail(fds)
              /\ pc' = "poll" <=> Tail(fds) = << >>
              /\ s # EMPTY =>
                    wrs' = [wrs EXCEPT ![Other(e)] =
                                Append(@, Convert(ConverterTo(Other(e)), s))]
    /\ (pc \in session_pcs /\ fds' # fds) => pc \in {"poll", "write"}
    /\ pc \in {"events", "write"} => fds # << >>

C15_NextByteRelayed ==
    \A e \in Endpoints :
        (pc \in session_pcs /\ buf[e] # EMPTY)
            ~> (\/ pc = "write" /\ Head(fds).fd = e /\ s # EMPTY
                \/ pc \in terminated_pcs)

\* C15: the events of a wakeup are taken in the order poll() returned them,
\* each read-ready channel of a wakeup relays one unit before poll() is called
\* again, and a byte waiting on one side is eventually read and handed to the
\* write towards the other side (or the session ends), however long the
\* other side stays ready.
C15_FairOrder == [][C15_Step]_vars /\ C15_NextByteRelayed

\* In one wakeup the remote side's end of file has been relayed and the byte
\* of the local side, the second event, is being written.
C15_Witness ==
    /\ pc = "write"
    /\ Len(fds) = 1
    /\ Head(fds).fd = "local"
    /\ s = << 65 >>
    /\ cond["remote"] = "eof"
    /\ wrs["local"] = << EMPTY >>
    /\ wrs["remote"] = << >>

\* C16 as stated: a second pass changes nothing, cr_to_lf leaves a string
\* without carriage returns as it is, and lf_to_cr one without line feeds.
C16_Idempotent ==
    /\ fop = "cr_to_lf_twice" => fout = cr_to_lf(fin)
    /\ fop = "lf_to_cr_twice" => fout = lf_to_cr(fin)
    /\ (fop = "cr_to_lf" /\ Count(fin, CRByte) = 0) => fout = fin
    /\ (fop = "lf_to_cr" /\ Count(fin, LFByte) = 0) => fout = fin

\* C16, amended: a second pass of cr_to_lf deletes the line feeds the first
\* pass made, so it leaves the string without its carriage returns and line
\* feeds, and equals the first pass exactly when the string had no carriage
\* return; likewise lf_to_cr with the two bytes exchanged.  Either function
\* returns its argument exactly when that has neither byte.
C16_SecondPass ==
    /\ fop = "cr_to_lf_twice" =>
          /\ fout = DeleteByte(DeleteByte(fin, LFByte), CRByte)
          /\ fout = cr_to_lf(fin) <=> Count(fin, CRByte) = 0
    /\ fop = "lf_to_cr_twice" =>
          /\ fout = DeleteByte(DeleteByte(fin, CRByte), LFByte)
          /\ fout = lf_to_cr(fin) <=> Count(fin, LFByte) = 0
    /\ fop \in {"cr_to_lf", "lf_to_cr"} => (fout = fin <=> Plain(fin))

\* The line feed cr_to_lf made of a carriage return is gone after the second
\* pass.
C16_Witness ==
    /\ fop = "cr_to_lf_twice"
    /\ fin = << 65, 13 >>
    /\ cr_to_lf(fin) = << 65, 10 >>
    /\ fout = << 65 >>

\* C17: a conversion applied to the bytes of a string one by one, the results
\* put together in order, gives what it gives applied to the whole string.
C17_BytewiseIsWhole ==
    /\ fop = "cr_to_lf_bytewise" =>
          fout = MapByte(DeleteByte(fin, LFByte), CRByte, LFByte)
    /\ fop = "lf_to_cr_bytewise" =>
          fout = MapByte(DeleteByte(fin, CRByte), LFByte, CRByte)
    /\ fop = "null_bytewise" => fout = fin
    /\ fop = "cr_to_lf_bytewise" => fout = cr_to_lf(fin)
    /\ fop = "lf_to_cr_bytewise" => fout = lf_to_cr(fin)
    /\ fop = "null_bytewise" => fout = null(fin)

\* A carriage return and a line feed, read one after the other, give one
\* line feed.
C17_Witness ==
    /\ fop = "cr_to_lf_bytewise"
    /\ fin = << 65, 13, 10 >>
    /\ Bytewise("cr_to_lf", << 13 >>) = LF
    /\ Bytewise("cr_to_lf", << 10 >>) = EMPTY
    /\ fout = << 65, 10 >>

\* C18: when main has ended, the socket file it made under a temporary name
\* is gone.
C18_TemporaryFileRemoved ==
    (pc = "exit" /\ temporary_file) => ~fileExists

====
